---- MODULE Spec2Model ----
(***************************************************************************)
(* Model of brnfk (src/brnfk-rs/src/main.rs): the Tape, the loader         *)
(* Program::load and the execution engine Brainfuck::run.                  *)
(*                                                                         *)
(* Indices are zero-based as in the source; Nth(s, i) reads element i of   *)
(* a Vec.  A usize is held as its representative modulo 2^64 in the range  *)
(* -2^63 .. 2^63-1, so -1 stands for usize::MAX: wrapping arithmetic is    *)
(* plain integer arithmetic, and the unsigned order is ULt below.          *)
(***************************************************************************)
EXTENDS Integers, Sequences, FiniteSets, TLC

VARIABLES
    data,        \* Program::load: the input buffer
    b_loc,       \* Program::load: the raw byte offset the scan is at
    jump_stack,  \* Program::load: indices of the pending JmpStart commands
    commands,    \* Program::load: the command vec under construction
    result,      \* Program::load: its return value, once it has returned
    build,       \* "debug" (overflow checks on) or "release" (wrapping)
    pc,          \* Brainfuck::run: "idle", "run", "done" or "panic"
    inner,       \* Tape::inner
    d_ptr,       \* Brainfuck::run: data pointer
    i_ptr,       \* Brainfuck::run: instruction pointer
    input,       \* the bytes the Input capability has still to yield
    output,      \* the bytes written to the Output capability
    last_op,     \* Tape: the last operation called, with its arguments
    last_get,    \* Tape: the value the last get returned
    written,     \* Tape: the indices written by set/inc/dec so far (history)
    n_ops,       \* Tape: number of operations called so far (history)
    input0,      \* the bytes the input source of a run is created with (history)
    past         \* the outputs of the runs that have ended before this one (history)

load_vars == <<data, b_loc, jump_stack, commands, result>>
run_vars  == <<pc, d_ptr, i_ptr, input, output>>
tape_vars == <<last_op, last_get, written, n_ops>>
hist_vars == <<input0, past>>
vars == <<data, b_loc, jump_stack, commands, result, build, pc, inner,
          d_ptr, i_ptr, input, output, last_op, last_get, written, n_ops,
          input0, past>>

----------------------------------------------------------------------------
\* Bounds of the model.

\* longest input buffer given to Program::load
MaxLen == 4
\* longest source text of a program that is run
MaxProgLen == 5
\* largest index used on a Tape on its own
MaxIndex == 2
\* number of operations applied to a Tape on its own
MaxOps == 4
\* the data pointer is not moved right of this cell
MaxPtr == 3
\* the run is cut off after this many output bytes
MaxOut == 2
\* longest input byte sequence offered to a run
MaxIn == 1
\* longest input buffer made of brackets, '+' and spaces only
MaxBracketLen == 6
\* longest source text of a program that is run more than once
MaxRerunLen == 4
\* number of runs of one loaded Program
MaxRuns == 2
\* the run of the Hello-World program does not move right of this cell
HelloCells == 7
\* the run of the Hello-World program is cut off after this many output bytes
HelloOut == 14

----------------------------------------------------------------------------
\* Bytes.

U8 == 0..255

USIZE_MAX == -1

Nth(s, i) == s[i + 1]

\* the unsigned order of two usize values
ULt(a, b) == IF (a < 0) = (b < 0) THEN a < b ELSE b < 0

\* a scan that skips every byte that is not a command
skips_non_commands(b) == b \notin {62, 60, 43, 45, 46, 44, 91, 93}

is_ascii_whitespace(b) == b \in {9, 10, 12, 13, 32}

\* the bytes of the command alphabet  > < + - . , [ ]
CommandBytes == {62, 60, 43, 45, 46, 44, 91, 93}

\* the bytes the enumerated buffers are made of: the alphabet, a space, 'x'
LoadBytes == CommandBytes \cup {32, 120}

\* the bytes of the longer, bracket-heavy buffers:  [ ] + and a space
BracketBytes == {91, 93, 43, 32}

\* the bytes u8::is_ascii_whitespace accepts, and the vertical tab it rejects
BlankBytes == {9, 10, 11, 12, 13, 32}

\* line 333: the program of tests::hello_world
HelloWorld ==
    <<43, 43, 43, 43, 43, 43, 43, 43, 91, 62, 43, 43, 43, 43, 91, 62, 43,
      43, 62, 43, 43, 43, 62, 43, 43, 43, 62, 43, 60, 60, 60, 60, 45, 93,
      62, 43, 62, 43, 62, 45, 62, 62, 43, 91, 60, 93, 60, 45, 93, 62, 62,
      46, 62, 45, 45, 45, 46, 43, 43, 43, 43, 43, 43, 43, 46, 46, 43, 43,
      43, 46, 62, 62, 46, 60, 45, 46, 60, 46, 43, 43, 43, 46, 45, 45, 45,
      45, 45, 45, 46, 45, 45, 45, 45, 45, 45, 45, 45, 46, 62, 62, 43, 46,
      62, 43, 43, 46>>

\* the values a Tape::set on its own is called with
SetValues == {0, 1, 255}

\* the bytes an input source holds
InBytes == {0, 65}

RECURSIVE SeqsUpTo(_, _)
SeqsUpTo(S, n) ==
    IF n = 0 THEN {<<>>}
    ELSE LET shorter == SeqsUpTo(S, n - 1)
         IN  shorter \cup {Append(s, x) : s \in {t \in shorter : Len(t) = n - 1}, x \in S}

----------------------------------------------------------------------------
\* Command and Error.

Simple(op) == [op |-> op]
JmpStart(t) == [op |-> "JmpStart", target |-> t]
JmpEnd(t) == [op |-> "JmpEnd", target |-> t]

InvalidCommand(index, command) ==
    [kind |-> "InvalidCommand", index |-> index, command |-> command]
UnmatchedJump(index) == [kind |-> "UnmatchedJump", index |-> index]

Ok(v) == [tag |-> "Ok", commands |-> v]
Err(e) == [tag |-> "Err", error |-> e]
Pending == [tag |-> "Pending"]

\* try_from with the rows of '+' and '-' exchanged
try_from_swapped(value) ==
    CASE value = 62 -> Ok(Simple("IncPtr"))
      [] value = 60 -> Ok(Simple("DecPtr"))
      [] value = 43 -> Ok(Simple("Dec"))
      [] value = 45 -> Ok(Simple("Inc"))
      [] value = 46 -> Ok(Simple("Output"))
      [] value = 44 -> Ok(Simple("Input"))
      [] value = 91 -> Ok(JmpStart(0))
      [] value = 93 -> Ok(JmpEnd(0))
      [] OTHER -> Err(InvalidCommand(0, value))

\* impl TryFrom<&u8> for Command
try_from(value) ==
    CASE value = 62 -> Ok(Simple("IncPtr"))
      [] value = 60 -> Ok(Simple("DecPtr"))
      [] value = 43 -> Ok(Simple("Inc"))
      [] value = 45 -> Ok(Simple("Dec"))
      [] value = 46 -> Ok(Simple("Output"))
      [] value = 44 -> Ok(Simple("Input"))
      [] value = 91 -> Ok(JmpStart(0))
      [] value = 93 -> Ok(JmpEnd(0))
      [] OTHER -> Err(InvalidCommand(0, value))

\* Error::set_index
set_index(err, idx) == [err EXCEPT !.index = idx]

----------------------------------------------------------------------------
\* Program::load.  A scan state is the pair of locals with the early return
\* (Pending while the scan goes on).

ScanState(cs, js, ret) == [commands |-> cs, jump_stack |-> js, ret |-> ret]

\* convert without the map_err that sets the index
convert_no_offset(b, loc) == try_from(b)

\* line 127-130: the conversion, with the error's index set to the offset
convert(b, loc) ==
    LET r == try_from(b)
    IN  IF r.tag = "Err" THEN Err(set_index(r.error, loc)) ELSE r

\* jmp_end_idx taking the raw byte offset
jmp_end_idx_raw(cs, loc) == loc

\* line 137: the index the JmpEnd being scanned will have
jmp_end_idx(cs, loc) == Len(cs)

\* jmp_start_idx taking the raw byte offset
jmp_start_idx_raw(cs, loc) == loc

\* line 134: the index pushed for a JmpStart
jmp_start_idx(cs, loc) == Len(cs)

\* back_patch that leaves the JmpStart as it was pushed
back_patch_none(cs, matching, idx) == cs

\* line 145-146: back-patch the JmpStart at matching with idx
back_patch(cs, matching, idx) ==
    [cs EXCEPT ![matching + 1] = JmpStart(idx)]

\* line 145: the pattern  Some(Command::JmpStart(_)) = commands.get_mut(matching)
is_jmp_start_at(cs, matching) ==
    /\ matching >= 0
    /\ matching < Len(cs)
    /\ Nth(cs, matching).op = "JmpStart"

\* a JmpEnd that is given its own index
jmp_end_target_self(matching, idx) == idx

\* line 143: the target written into the JmpEnd
jmp_end_target(matching, idx) == matching

\* line 136-150 and 154
scan_jmp_end(st, loc) ==
    LET idx == jmp_end_idx(st.commands, loc)
        js  == st.jump_stack
    IN  IF js = <<>>
        THEN ScanState(st.commands, js, Err(UnmatchedJump(idx)))
        ELSE LET matching == js[Len(js)]
                 popped   == SubSeq(js, 1, Len(js) - 1)
             IN  IF is_jmp_start_at(st.commands, matching)
                 THEN ScanState(
                        Append(back_patch(st.commands, matching, idx),
                               JmpEnd(jmp_end_target(matching, idx))),
                        popped, Pending)
                 ELSE ScanState(st.commands, popped,
                                [tag |-> "Unreachable"])

\* line 121-155: one iteration of the scan, on byte b at offset loc
scan_byte(st, b, loc) ==
    IF is_ascii_whitespace(b) THEN st
    ELSE LET r == convert(b, loc)
         IN  IF r.tag = "Err" THEN ScanState(st.commands, st.jump_stack, r)
             ELSE IF r.commands.op = "JmpStart"
                  THEN ScanState(Append(st.commands, r.commands),
                                 Append(st.jump_stack,
                                        jmp_start_idx(st.commands, loc)),
                                 Pending)
             ELSE IF r.commands.op = "JmpEnd" THEN scan_jmp_end(st, loc)
             ELSE ScanState(Append(st.commands, r.commands), st.jump_stack,
                            Pending)

\* unmatched_start taking the bottom of the stack
unmatched_start_first(js) == js[1]

\* line 159: the index reported for a non-empty stack after the scan
unmatched_start(js) == js[Len(js)]

\* line 157-164
load_end(st) ==
    IF st.jump_stack # <<>>
    THEN Err(UnmatchedJump(unmatched_start(st.jump_stack)))
    ELSE Ok(st.commands)

RECURSIVE load_from(_, _, _)
load_from(d, loc, st) ==
    IF st.ret.tag # "Pending" THEN st.ret
    ELSE IF loc >= Len(d) THEN load_end(st)
    ELSE load_from(d, loc + 1, scan_byte(st, Nth(d, loc), loc))

\* Program::load as a function of the buffer
load(d) == load_from(d, 0, ScanState(<<>>, <<>>, Pending))

----------------------------------------------------------------------------
\* Tape.  An operation yields the new storage, and whether it panicked.

TapeRes(v, p) == [inner |-> v, panic |-> p]

\* resize that builds the storage anew, zeroed
resize_clear(v, new_len) == [k \in 1..new_len |-> 0]

\* Vec::resize(new_len, 0)
resize(v, new_len) ==
    IF new_len <= Len(v) THEN SubSeq(v, 1, new_len)
    ELSE v \o [k \in 1..(new_len - Len(v)) |-> 0]

\* line 48-50 (and 55-57, 62-64): grow the storage to cover index
grow(v, index, bld) ==
    IF ULt(index, Len(v)) THEN TapeRes(v, FALSE)
    ELSE IF index = USIZE_MAX
         THEN IF bld = "debug" THEN TapeRes(v, TRUE)
              ELSE TapeRes(resize(v, 0), FALSE)
    ELSE IF index < 0 THEN TapeRes(v, TRUE)
    ELSE TapeRes(resize(v, index + 1), FALSE)

\* an addition that saturates at 255
saturating_add(x, y) == IF x + y > 255 THEN 255 ELSE x + y

wrapping_add(x, y) == (x + y) % 256

wrapping_sub(x, y) == (x - y) % 256

\* self.inner[index] = value, which panics out of bounds
store(v, index, value) ==
    IF ULt(index, Len(v)) THEN TapeRes([v EXCEPT ![index + 1] = value], FALSE)
    ELSE TapeRes(v, TRUE)

\* a get whose bounds check is off by one
tape_get_short(v, index) ==
    IF ULt(index + 1, Len(v)) THEN Nth(v, index) ELSE 0

\* Tape::get
tape_get(v, index) == IF ULt(index, Len(v)) THEN Nth(v, index) ELSE 0

\* Tape::inc
tape_inc(v, index, bld) ==
    LET g == grow(v, index, bld)
    IN  IF g.panic THEN g
        ELSE IF ~ULt(index, Len(g.inner)) THEN TapeRes(g.inner, TRUE)
        ELSE store(g.inner, index, wrapping_add(Nth(g.inner, index), 1))

\* Tape::dec
tape_dec(v, index, bld) ==
    LET g == grow(v, index, bld)
    IN  IF g.panic THEN g
        ELSE IF ~ULt(index, Len(g.inner)) THEN TapeRes(g.inner, TRUE)
        ELSE store(g.inner, index, wrapping_sub(Nth(g.inner, index), 1))

\* Tape::set
tape_set(v, index, value, bld) ==
    LET g == grow(v, index, bld)
    IN  IF g.panic THEN g ELSE store(g.inner, index, value)

----------------------------------------------------------------------------
\* Program::load, one iteration of its scan at a time.

Builds == {"debug", "release"}

RunIdle ==
    /\ pc = "idle"
    /\ inner = <<>>
    /\ d_ptr = 0
    /\ i_ptr = 0
    /\ output = <<>>

TapeIdle ==
    /\ last_op = [name |-> "none", index |-> 0, value |-> 0, old |-> 0]
    /\ last_get = 0
    /\ written = {}
    /\ n_ops = 0

\* line 116-119
InitLoad ==
    /\ data \in SeqsUpTo(LoadBytes, MaxLen)
                \cup SeqsUpTo(BracketBytes, MaxBracketLen)
                \cup SeqsUpTo(BlankBytes, MaxLen)
                \cup {<<b>> : b \in U8}
    /\ b_loc = 0
    /\ jump_stack = <<>>
    /\ commands = <<>>
    /\ result = Pending
    /\ build \in Builds
    /\ input = <<>>
    /\ input0 = input
    /\ past = <<>>
    /\ RunIdle
    /\ TapeIdle

\* line 121-155: one iteration of the for loop
LoadScan ==
    /\ result = Pending
    /\ b_loc < Len(data)
    /\ LET st == scan_byte(ScanState(commands, jump_stack, Pending),
                           Nth(data, b_loc), b_loc)
       IN  /\ commands' = st.commands
           /\ jump_stack' = st.jump_stack
           /\ result' = st.ret
           /\ b_loc' = IF st.ret = Pending THEN b_loc + 1 ELSE b_loc
    /\ UNCHANGED <<data, build, inner, run_vars, tape_vars, hist_vars>>

\* line 157-164: after the scan
LoadEnd ==
    /\ result = Pending
    /\ b_loc >= Len(data)
    /\ result' = load_end(ScanState(commands, jump_stack, Pending))
    /\ UNCHANGED <<data, b_loc, jump_stack, commands, build, inner,
                   run_vars, tape_vars, hist_vars>>

NextLoad == LoadScan \/ LoadEnd

SpecLoad == InitLoad /\ [][NextLoad]_vars

----------------------------------------------------------------------------
\* Brainfuck::run, one iteration of its loop at a time.

InitRun ==
    /\ data \in {d \in SeqsUpTo(CommandBytes, MaxProgLen) : load(d).tag = "Ok"}
    /\ b_loc = Len(data)
    /\ jump_stack = <<>>
    /\ result = load(data)
    /\ commands = result.commands
    /\ build \in Builds
    /\ input \in SeqsUpTo(InBytes, MaxIn)
    /\ input0 = input
    /\ past = <<>>
    /\ RunIdle
    /\ TapeIdle

\* the loop condition off by one
loop_cond_le(i, len) == i <= len

\* line 221: the loop condition
loop_cond(i, len) == i < len

\* the position of the run once the instruction pointer is i
pc_at(i) == IF loop_cond(i, Len(commands)) THEN "run" ELSE "done"

\* line 222
Fetch == Nth(commands, i_ptr)

\* line 257, and the loop condition evaluated again
Advance ==
    /\ i_ptr' = i_ptr + 1
    /\ pc' = pc_at(i_ptr + 1)

\* a panic unwinds out of run
Panic ==
    /\ pc' = "panic"
    /\ UNCHANGED <<d_ptr, i_ptr, input, output>>

\* a jump past the partner bracket
jump_to_next(matching) == matching + 1

\* line 245 and 251: where a taken jump sets the instruction pointer
jump_to(matching) == matching

\* a JmpStart with its test the wrong way round
start_jumps_nonzero(cell) == cell # 0

\* line 244: the condition under which JmpStart jumps
start_jumps(cell) == cell = 0

\* a JmpEnd with its test the wrong way round
end_jumps_on_zero(cell) == cell = 0

\* line 250: the condition under which JmpEnd jumps
end_jumps(cell) == cell # 0

\* a tape that is a field of the engine, kept from run to run
fresh_tape_kept(v) == v

\* line 217: Tape::default(), whatever tape v an earlier run has left
fresh_tape(v) == <<>>

\* line 216-221: the locals are created and the loop condition evaluated
RunEntry ==
    /\ inner' = fresh_tape(inner)
    /\ d_ptr' = 0
    /\ i_ptr' = 0
    /\ pc' = pc_at(0)

\* line 215-221: the first call of run on the loaded Program
Run ==
    /\ pc = "idle"
    /\ result.tag = "Ok"
    /\ RunEntry
    /\ UNCHANGED <<load_vars, build, input, output, tape_vars, hist_vars>>

\* line 215-221: run called again on the same Program once a run has
\* returned, by an engine made of the same input bytes and an empty sink
Rerun ==
    /\ pc = "done"
    /\ Len(past) + 1 < MaxRuns
    /\ past' = Append(past, output)
    /\ input' = input0
    /\ output' = <<>>
    /\ RunEntry
    /\ UNCHANGED <<load_vars, build, tape_vars, input0>>

\* the cell the model lets the data pointer move right to
PtrCap == IF data = HelloWorld THEN HelloCells ELSE MaxPtr

\* the number of output bytes the model lets a run write
OutCap == IF data = HelloWorld THEN HelloOut ELSE MaxOut

\* line 225-227
StepIncPtr ==
    /\ pc = "run"
    /\ Fetch.op = "IncPtr"
    /\ d_ptr < PtrCap
    /\ IF build = "debug" /\ d_ptr = USIZE_MAX
       THEN Panic
       ELSE /\ d_ptr' = d_ptr + 1
            /\ Advance
            /\ UNCHANGED <<input, output>>
    /\ UNCHANGED <<load_vars, build, inner, tape_vars, hist_vars>>

\* line 228-230
StepDecPtr ==
    /\ pc = "run"
    /\ Fetch.op = "DecPtr"
    /\ IF build = "debug" /\ d_ptr = 0
       THEN Panic
       ELSE /\ d_ptr' = d_ptr - 1
            /\ Advance
            /\ UNCHANGED <<input, output>>
    /\ UNCHANGED <<load_vars, build, inner, tape_vars, hist_vars>>

\* a Tape operation of the run took the storage to r
TapeStep(r) ==
    /\ inner' = r.inner
    /\ IF r.panic
       THEN Panic
       ELSE /\ Advance
            /\ UNCHANGED <<d_ptr, input, output>>

\* line 231-233
StepInc ==
    /\ pc = "run"
    /\ Fetch.op = "Inc"
    /\ TapeStep(tape_inc(inner, d_ptr, build))
    /\ UNCHANGED <<load_vars, build, tape_vars, hist_vars>>

\* line 234-236
StepDec ==
    /\ pc = "run"
    /\ Fetch.op = "Dec"
    /\ TapeStep(tape_dec(inner, d_ptr, build))
    /\ UNCHANGED <<load_vars, build, tape_vars, hist_vars>>

\* line 237-239
StepOutput ==
    /\ pc = "run"
    /\ Fetch.op = "Output"
    /\ Len(output) < OutCap
    /\ output' = Append(output, tape_get(inner, d_ptr))
    /\ Advance
    /\ UNCHANGED <<load_vars, build, inner, d_ptr, input, tape_vars, hist_vars>>

\* an input source that yields 0 once it has no byte left
input_next_or_zero(inp) ==
    IF inp = <<>> THEN [some |-> TRUE, value |-> 0, rest |-> inp]
    ELSE [some |-> TRUE, value |-> Head(inp), rest |-> Tail(inp)]

\* line 241: self.input.next(), an Option with the source it leaves behind
input_next(inp) ==
    IF inp = <<>> THEN [some |-> FALSE, value |-> 0, rest |-> inp]
    ELSE [some |-> TRUE, value |-> Head(inp), rest |-> Tail(inp)]

\* line 240-242
StepInput ==
    /\ pc = "run"
    /\ Fetch.op = "Input"
    /\ LET n == input_next(input)
       IN  IF ~n.some
           THEN Panic /\ UNCHANGED inner
           ELSE LET r == tape_set(inner, d_ptr, n.value, build)
                IN  /\ inner' = r.inner
                    /\ input' = n.rest
                    /\ IF r.panic
                       THEN pc' = "panic" /\ UNCHANGED <<d_ptr, i_ptr, output>>
                       ELSE Advance /\ UNCHANGED <<d_ptr, output>>
    /\ UNCHANGED <<load_vars, build, tape_vars, hist_vars>>

\* line 243-248
StepJmpStart ==
    /\ pc = "run"
    /\ Fetch.op = "JmpStart"
    /\ IF start_jumps(tape_get(inner, d_ptr))
       THEN /\ i_ptr' = jump_to(Fetch.target)
            /\ pc' = pc_at(jump_to(Fetch.target))
       ELSE Advance
    /\ UNCHANGED <<load_vars, build, inner, d_ptr, input, output, tape_vars, hist_vars>>

\* line 249-254
StepJmpEnd ==
    /\ pc = "run"
    /\ Fetch.op = "JmpEnd"
    /\ IF end_jumps(tape_get(inner, d_ptr))
       THEN /\ i_ptr' = jump_to(Fetch.target)
            /\ pc' = pc_at(jump_to(Fetch.target))
       ELSE Advance
    /\ UNCHANGED <<load_vars, build, inner, d_ptr, input, output, tape_vars, hist_vars>>

Step ==
    \/ StepIncPtr
    \/ StepDecPtr
    \/ StepInc
    \/ StepDec
    \/ StepOutput
    \/ StepInput
    \/ StepJmpStart
    \/ StepJmpEnd

NextRun == Run \/ Step

SpecRun == InitRun /\ [][NextRun]_vars

----------------------------------------------------------------------------
\* A loaded Program run several times.

InitRerun ==
    /\ data \in {d \in SeqsUpTo(CommandBytes, MaxRerunLen) : load(d).tag = "Ok"}
    /\ b_loc = Len(data)
    /\ jump_stack = <<>>
    /\ result = load(data)
    /\ commands = result.commands
    /\ build \in Builds
    /\ input \in SeqsUpTo(InBytes, MaxIn)
    /\ input0 = input
    /\ past = <<>>
    /\ RunIdle
    /\ TapeIdle

NextRerun == Run \/ Step \/ Rerun

SpecRerun == InitRerun /\ [][NextRerun]_vars

----------------------------------------------------------------------------
\* tests::hello_world: the Hello-World program loaded and run, with an input
\* source it never asks.

\* line 333-336
InitHello ==
    /\ data = HelloWorld
    /\ b_loc = Len(data)
    /\ jump_stack = <<>>
    /\ result = load(data)
    /\ commands = IF result.tag = "Ok" THEN result.commands ELSE <<>>
    /\ build \in Builds
    /\ input \in SeqsUpTo(InBytes, MaxIn)
    /\ input0 = input
    /\ past = <<>>
    /\ RunIdle
    /\ TapeIdle

\* line 338: the run; the program has no ','
NextHello ==
    \/ Run
    \/ StepIncPtr
    \/ StepDecPtr
    \/ StepInc
    \/ StepDec
    \/ StepOutput
    \/ StepJmpStart
    \/ StepJmpEnd

\* run is one sequential loop: a step that can be taken is taken
SpecHello == InitHello /\ [][NextHello]_vars /\ WF_vars(NextHello)

----------------------------------------------------------------------------
\* The program `,.` run on an input source that holds one byte.

EchoText == <<44, 46>>

InitEcho ==
    /\ data = EchoText
    /\ b_loc = Len(data)
    /\ jump_stack = <<>>
    /\ result = load(data)
    /\ commands = result.commands
    /\ build \in Builds
    /\ input \in {<<b>> : b \in U8}
    /\ input0 = input
    /\ past = <<>>
    /\ RunIdle
    /\ TapeIdle

NextEcho == Run \/ StepInput \/ StepOutput

SpecEcho == InitEcho /\ [][NextEcho]_vars /\ WF_vars(NextEcho)

----------------------------------------------------------------------------
\* A Tape on its own: any sequence of its four operations.

Indices == 0..MaxIndex

InitTape ==
    /\ data = <<>>
    /\ b_loc = 0
    /\ jump_stack = <<>>
    /\ commands = <<>>
    /\ result = Pending
    /\ build \in Builds
    /\ input = <<>>
    /\ input0 = input
    /\ past = <<>>
    /\ RunIdle
    /\ TapeIdle

\* the bookkeeping of a mutating operation that took the storage to r
TapeOp(r, op) ==
    /\ pc = "idle"
    /\ n_ops < MaxOps
    /\ n_ops' = n_ops + 1
    /\ inner' = r.inner
    /\ pc' = IF r.panic THEN "panic" ELSE pc
    /\ last_op' = [name |-> op.name, index |-> op.index, value |-> op.value,
                   old |-> tape_get(inner, op.index)]
    /\ written' = written \cup {op.index}
    /\ UNCHANGED <<load_vars, build, d_ptr, i_ptr, input, output, last_get,
                   hist_vars>>

TapeInc ==
    \E i \in Indices :
        TapeOp(tape_inc(inner, i, build),
               [name |-> "inc", index |-> i, value |-> 1])

TapeDec ==
    \E i \in Indices :
        TapeOp(tape_dec(inner, i, build),
               [name |-> "dec", index |-> i, value |-> 1])

TapeSet ==
    \E i \in Indices, v \in SetValues :
        TapeOp(tape_set(inner, i, v, build),
               [name |-> "set", index |-> i, value |-> v])

\* a get that grows the storage as the writing operations do
get_storage_grows(v, index) ==
    IF index >= Len(v) THEN resize(v, index + 1) ELSE v

\* the storage a get leaves behind (it takes &self)
get_storage(v, index) == v

TapeGet ==
    \E i \in Indices \cup {MaxIndex + 1} :
        /\ pc = "idle"
        /\ n_ops < MaxOps
        /\ n_ops' = n_ops + 1
        /\ last_get' = tape_get(inner, i)
        /\ inner' = get_storage(inner, i)
        /\ last_op' = [name |-> "get", index |-> i, value |-> 0,
                       old |-> tape_get(inner, i)]
        /\ UNCHANGED <<load_vars, build, run_vars, written, hist_vars>>

NextTape == TapeInc \/ TapeDec \/ TapeSet \/ TapeGet

SpecTape == InitTape /\ [][NextTape]_vars

----------------------------------------------------------------------------
\* Properties of Program::load, stated on the input buffer alone.

IsBlank(b) == b \in {9, 10, 12, 13, 32}

\* the non-whitespace bytes of a buffer, in order
Strip(d) == SelectSeq(d, LAMBDA b : ~IsBlank(b))

\* the instruction table of the loader
KindOf(b) ==
    CASE b = 62 -> "IncPtr"
      [] b = 60 -> "DecPtr"
      [] b = 43 -> "Inc"
      [] b = 45 -> "Dec"
      [] b = 46 -> "Output"
      [] b = 44 -> "Input"
      [] b = 91 -> "JmpStart"
      [] b = 93 -> "JmpEnd"
      [] OTHER -> "Invalid"

\* the kinds of the instructions a buffer stands for
KindsOf(d) == [k \in 1..Len(Strip(d)) |-> KindOf(Strip(d)[k])]

Kinds(cs) == [k \in 1..Len(cs) |-> cs[k].op]

\* number of zero-based positions p in lo..hi-1 of ks holding kind
CountIn(ks, kind, lo, hi) ==
    Cardinality({p \in lo..(hi - 1) : Nth(ks, p) = kind})

\* the brackets strictly between positions i and j are balanced
Balanced(ks, i, j) ==
    CountIn(ks, "JmpStart", i + 1, j) = CountIn(ks, "JmpEnd", i + 1, j)

\* the positions of the JmpEnd's that could close the JmpStart at i
Closers(ks, i) ==
    {j \in (i + 1)..(Len(ks) - 1) :
        Nth(ks, j) = "JmpEnd" /\ Balanced(ks, i, j)}

Min(S) == CHOOSE x \in S : \A y \in S : x <= y
Max(S) == CHOOSE x \in S : \A y \in S : x >= y

\* raw offsets of the bytes that are neither whitespace nor commands
InvalidAt(d) ==
    {k \in 0..(Len(d) - 1) :
        ~IsBlank(Nth(d, k)) /\ Nth(d, k) \notin CommandBytes}

\* raw offsets of the ']' that have more ']' than '[' up to and with them
UnderflowAt(d) ==
    {k \in 0..(Len(d) - 1) :
        /\ Nth(d, k) = 93
        /\ CountIn(d, 93, 0, k + 1) > CountIn(d, 91, 0, k + 1)}

\* raw offset of the first problem of either kind, Len(d) if there is none
FirstProblem(d) == Min(InvalidAt(d) \cup UnderflowAt(d) \cup {Len(d)})

\* number of instructions the bytes before raw offset k stand for
ResolvedIndex(d, k) == Len(Strip(SubSeq(d, 1, k)))

\* resolved indices of the JmpStart's of a buffer that nothing closes
Unclosed(d) ==
    {i \in 0..(Len(KindsOf(d)) - 1) :
        Nth(KindsOf(d), i) = "JmpStart" /\ Closers(KindsOf(d), i) = {}}

Returned == result # Pending

\* C1: when load succeeds, every JmpStart at index i carries the index j > i
\* of its structurally matching JmpEnd (the nearest later JmpEnd with
\* balanced brackets in between), and that JmpEnd carries i.
C1_LoopsLinked ==
    result.tag = "Ok" =>
        LET cs == result.commands
            ks == Kinds(cs)
        IN  \A i \in 0..(Len(cs) - 1) :
                Nth(cs, i).op = "JmpStart" =>
                    LET j == Nth(cs, i).target
                    IN  /\ j > i
                        /\ j < Len(cs)
                        /\ Closers(ks, i) # {}
                        /\ j = Min(Closers(ks, i))
                        /\ Nth(cs, j) = JmpEnd(i)

\* `[[]]` has loaded: the outer pair is (0, 3), the inner pair (1, 2)
C1_Witness ==
    /\ data = <<91, 91, 93, 93>>
    /\ result = Ok(<<JmpStart(3), JmpStart(2), JmpEnd(1), JmpEnd(0)>>)

\* C2: if the first problem of a buffer is a non-whitespace byte b outside
\* the alphabet, load fails with InvalidCommand carrying the raw byte offset
\* of b and b itself; a single-byte buffer of such a b fails at index 0.
C2_InvalidCommandRawOffset ==
    Returned =>
        LET k == FirstProblem(data)
        IN  k \in InvalidAt(data) =>
                result = Err(InvalidCommand(k, Nth(data, k)))

\* an invalid byte after a space and a command is reported at raw offset 2
C2_Witness ==
    /\ data = <<32, 43, 120>>
    /\ result = Err(InvalidCommand(2, 120))

\* C3: when load succeeds, the Program holds one instruction per
\* non-whitespace byte, in order, of the kind the table gives; whitespace
\* adds nothing, so a buffer of whitespace only loads to the empty Program
\* and a buffer loads to what it loads to with its whitespace removed.
C3_OneInstructionPerByte ==
    /\ result.tag = "Ok" =>
        /\ Kinds(result.commands) = KindsOf(data)
        /\ load(Strip(data)) = result
    /\ (Returned /\ Strip(data) = <<>>) => result = Ok(<<>>)

\* `+ >` with a space in between has loaded to two instructions
C3_Witness ==
    /\ data = <<43, 32, 62>>
    /\ result = Ok(<<Simple("Inc"), Simple("IncPtr")>>)

\* C4: when the scan meets a ']' with the pending stack empty, load fails
\* with UnmatchedJump carrying the resolved-instruction index of that ']'
\* (whitespace not counted), not its raw byte offset.
C4_UnmatchedEndResolvedIndex ==
    Returned =>
        LET k == FirstProblem(data)
        IN  k \in UnderflowAt(data) =>
                result = Err(UnmatchedJump(ResolvedIndex(data, k)))

\* the ']' of `+ ]` is at raw offset 2 and is reported at index 1
C4_Witness ==
    /\ data = <<43, 32, 93>>
    /\ b_loc = 2
    /\ result = Err(UnmatchedJump(1))

\* C5: when the scan ends without an error and the pending stack is not
\* empty, load fails with UnmatchedJump carrying the resolved index of the
\* innermost (last pushed) unclosed JmpStart.
C5_UnmatchedStartInnermost ==
    (Returned /\ FirstProblem(data) = Len(data) /\ Unclosed(data) # {}) =>
        result = Err(UnmatchedJump(Max(Unclosed(data))))

\* `[[` is reported at index 1
C5_Witness ==
    /\ data = <<91, 91>>
    /\ result = Err(UnmatchedJump(1))

----------------------------------------------------------------------------
\* Properties of Brainfuck::run.

\* the cell at index i of storage v, 0 where the storage does not reach
CellOf(v, i) == IF i >= 0 /\ i < Len(v) THEN v[i + 1] ELSE 0

IsBracket(cmd) == cmd.op \in {"JmpStart", "JmpEnd"}

\* the bracket cmd jumps when the cell at the data pointer is cell
Taken(cmd, cell) ==
    \/ cmd.op = "JmpStart" /\ cell = 0
    \/ cmd.op = "JmpEnd" /\ cell # 0

\* C6 as stated: a taken jump of JmpStart(target) (cell 0) or
\* JmpEnd(target) (cell non-zero) sets the next instruction pointer to
\* target+1 in that one step; otherwise the pointer advances by 1.
C6_JumpLandsPastPartner ==
    [][(pc = "run" /\ IsBracket(Fetch)) =>
            i_ptr' = IF Taken(Fetch, CellOf(inner, d_ptr))
                     THEN Fetch.target + 1
                     ELSE i_ptr + 1]_vars

\* C6 amended: a taken jump sets the next instruction pointer to target,
\* the index of the partner bracket, which is then evaluated on the same
\* cell and does not jump (so the pointer is target+1 one step later);
\* otherwise the pointer advances by 1.
C6_JumpLandsOnPartner ==
    [][(pc = "run" /\ IsBracket(Fetch)) =>
            IF Taken(Fetch, CellOf(inner, d_ptr))
            THEN /\ i_ptr' = Fetch.target
                 /\ pc' = "run"
                 /\ IsBracket(Nth(commands, i_ptr'))
                 /\ Nth(commands, i_ptr').op # Fetch.op
                 /\ Nth(commands, i_ptr').target = i_ptr
                 /\ ~Taken(Nth(commands, i_ptr'), CellOf(inner', d_ptr'))
            ELSE i_ptr' = i_ptr + 1]_vars

\* `[]` on a zero cell: the JmpStart at 0 has jumped, the run is at the JmpEnd
C6_Witness ==
    /\ data = <<91, 93>>
    /\ pc = "run"
    /\ i_ptr = 1
    /\ Fetch = JmpEnd(0)

C7_Bounds ==
    pc # "idle" =>
        /\ i_ptr >= 0
        /\ i_ptr <= Len(commands)
        /\ pc = "run" => i_ptr < Len(commands)
        /\ pc = "done" <=> i_ptr = Len(commands)
        /\ commands = <<>> => (pc = "done" /\ output = <<>>)

\* C7: a run of a loaded Program starts with instruction pointer 0; in every
\* state the pointer is at most the Program's length, every fetch is in
\* bounds, and the run is in its terminal state exactly when the pointer
\* equals the length (an empty Program halts at once, with no output).
C7_InstructionPointerInBounds ==
    [][/\ result.tag = "Ok"
       /\ pc = "idle" => (pc' # "idle" /\ i_ptr' = 0)
       /\ C7_Bounds'
       /\ pc = "done" => pc' = "done"]_vars

\* `+[-]` has run to its end, through both jumps' fall-through
C7_Witness ==
    /\ data = <<43, 91, 45, 93>>
    /\ pc = "done"
    /\ i_ptr = 4
    /\ inner = <<0>>

----------------------------------------------------------------------------
\* Properties of the Tape.

Called(name) == n_ops' # n_ops /\ last_op'.name = name

Mutated == n_ops' # n_ops /\ last_op'.name \in {"set", "inc", "dec"}

\* C8: get(index) returns 0 for every index never written, also at or
\* beyond the storage length, and leaves the storage and its length as
\* they are.
C8_GetReadsZeroAndKeepsStorage ==
    [][/\ \A i \in 0..(MaxIndex + 1) :
            i \notin written' => tape_get(inner', i) = 0
       /\ Called("get") =>
            /\ inner' = inner
            /\ last_op'.index \notin written => last_get' = 0
            /\ last_op'.index >= Len(inner) => last_get' = 0]_vars

\* a get of a never-written cell inside the storage has returned 0
C8_Witness ==
    /\ last_op.name = "get"
    /\ last_op.index \notin written
    /\ last_op.index < Len(inner)
    /\ written # {}
    /\ last_get = 0

C10_IncDecWrap ==
    [][/\ pc' # "panic"
       /\ Called("inc") =>
                CellOf(inner', last_op'.index)
                    = (CellOf(inner, last_op'.index) + 1) % 256
       /\ Called("dec") =>
                CellOf(inner', last_op'.index)
                    = (CellOf(inner, last_op'.index) + 255) % 256
       /\ (last_op.name = "inc" /\ Called("dec")
             /\ last_op'.index = last_op.index) =>
                CellOf(inner', last_op'.index) = last_op.old]_vars

\* an inc of a cell holding 255 has left it at 0
C10_Witness ==
    /\ last_op.name = "inc"
    /\ last_op.old = 255
    /\ CellOf(inner, last_op.index) = 0

----------------------------------------------------------------------------
\* Further properties of Brainfuck::run.

Running(op) == pc = "run" /\ Fetch.op = op

\* C11: when an Input instruction executes and the input source has no
\* further byte, the run aborts: the cell at the data pointer is not written
\* (no zero-fill), no later instruction executes and no further byte is
\* emitted.
C11_InputExhaustedAborts ==
    [][/\ (Running("Input") /\ input = <<>>) =>
            /\ pc' = "panic"
            /\ inner' = inner
            /\ i_ptr' = i_ptr
            /\ output' = output
       /\ pc = "panic" =>
            /\ pc' = "panic"
            /\ inner' = inner
            /\ i_ptr' = i_ptr
            /\ d_ptr' = d_ptr
            /\ output' = output]_vars

\* `+.,.` without input: aborted at the ',', after one byte of output and
\* with the cell still 1
C11_Witness ==
    /\ data = <<43, 46, 44, 46>>
    /\ input0 = <<>>
    /\ pc = "panic"
    /\ i_ptr = 2
    /\ inner = <<1>>
    /\ output = <<1>>

\* line 342: "Hello World!\n"
HelloOutput == <<72, 101, 108, 108, 111, 32, 87, 111, 114, 108, 100, 33, 10>>

\* C12: loading the Hello-World program succeeds, and its run halts having
\* emitted exactly the 13 bytes of "Hello World!\n", in that order, without
\* consuming any input.
C12_HelloWorld ==
    /\ [](result.tag = "Ok")
    /\ [][input' = input]_vars
    /\ [](pc = "done" => output = HelloOutput)
    /\ <>[](pc = "done" /\ output = HelloOutput /\ input = input0)

\* the run has ended with the thirteen bytes written
C12_Witness ==
    /\ data = HelloWorld
    /\ pc = "done"
    /\ i_ptr = Len(HelloWorld)
    /\ Len(output) = 13
    /\ output[1] = 72
    /\ output[13] = 10

\* C13: the program `,.` run with an input source holding exactly one byte
\* b halts having emitted exactly the one byte b, for every byte value b; it
\* takes exactly one byte from the input and does not fail for lack of more.
C13_EchoOneByte ==
    /\ [](pc # "panic")
    /\ [](Len(input0) = 1 /\ Len(input) + Len(output) <= 1)
    /\ [](pc = "done" => (output = input0 /\ input = <<>>))
    /\ <>[](pc = "done" /\ output = input0 /\ input = <<>>)

\* the byte 65 has been echoed
C13_Witness ==
    /\ data = EchoText
    /\ input0 = <<65>>
    /\ pc = "done"
    /\ output = <<65>>
    /\ input = <<>>

\* a call of run is entered in this step
RunStarts == (pc = "idle" /\ pc' # "idle") \/ past' # past

\* C14: a loaded Program can be run repeatedly: a run never modifies the
\* instruction list, every run starts with instruction pointer 0, data
\* pointer 0 and an empty Tape whatever earlier runs did, and two successive
\* runs given the same input bytes emit the same output bytes.
C14_RunsAreIndependent ==
    [][/\ commands' = commands
       /\ result' = result
       /\ RunStarts =>
            /\ i_ptr' = 0
            /\ d_ptr' = 0
            /\ inner' = <<>>
            /\ input' = input0
       /\ (pc' = "done" /\ past' # <<>>) => output' = past'[Len(past')]]_vars

\* `+,.` has been run twice on the input 65, after a first run that left a
\* one-cell tape, and has written 65 both times
C14_Witness ==
    /\ data = <<43, 44, 46>>
    /\ input0 = <<65>>
    /\ pc = "done"
    /\ past = <<<<65>>>>
    /\ output = <<65>>
    /\ inner = <<65>>

\* the usize p is the result of a subtraction that wrapped below 0
Wrapped(p) == p < 0

\* C15: the Tape is addressed only by a non-negative data pointer: while the
\* engine is running the data pointer has not gone below 0, and a DecPtr
\* executed with the data pointer at 0 never lets execution continue to
\* read or write a cell left of 0 or at a wrapped-around index.
C15_PointerNeverBelowZero ==
    [][/\ (Running("DecPtr") /\ d_ptr = 0) => pc' = "panic"
       /\ pc' = "run" => ~Wrapped(d_ptr')]_vars

----------------------------------------------------------------------------
\* Further properties of Program::load.

\* C16: load stops at the first problem of the left-to-right scan and
\* returns no Program: an invalid byte met before any ']' on an empty stack
\* gives InvalidCommand for that byte, such a ']' met before any invalid byte
\* gives UnmatchedJump for that ']', and an unclosed '[' is reported only
\* when the buffer has neither (`[x` gives InvalidCommand at byte 1).
C16_FirstProblemWins ==
    Returned =>
        LET k == FirstProblem(data)
        IN  /\ k < Len(data) => (result.tag = "Err" /\ b_loc = k)
            /\ k \in InvalidAt(data) => result.error.kind = "InvalidCommand"
            /\ k \in UnderflowAt(data) => result.error.kind = "UnmatchedJump"
            /\ result.tag = "Err" => DOMAIN result = {"tag", "error"}
            /\ result.tag = "Ok" <=> (k = Len(data) /\ Unclosed(data) = {})
            /\ (result.tag = "Err" /\ b_loc = Len(data)) =>
                    /\ Unclosed(data) # {}
                    /\ InvalidAt(data) \cup UnderflowAt(data) = {}
                    /\ result.error.kind = "UnmatchedJump"

\* `[x` is refused for the 'x' at byte 1, not for the open '['
C16_Witness ==
    /\ data = <<91, 120>>
    /\ b_loc = 1
    /\ jump_stack = <<0>>
    /\ result = Err(InvalidCommand(1, 120))

----------------------------------------------------------------------------
\* Properties of Brainfuck::run, continued.

\* the run is at a bracket of an empty loop `[]` on a cell that is not 0
InEmptyLoop ==
    /\ pc = "run"
    /\ IsBracket(Fetch)
    /\ Fetch.target \in {i_ptr - 1, i_ptr + 1}
    /\ CellOf(inner, d_ptr) # 0

\* C17: there is no step ceiling: a run whose loop exit condition never
\* becomes true never reaches the terminal state; the run of `+[]` keeps the
\* instruction pointer below the Program's length for ever and emits nothing.
C17_EndlessLoopNeverHalts ==
    [][/\ data = <<43, 91, 93>> =>
            /\ pc' = "run"
            /\ i_ptr' < Len(commands)
            /\ output' = <<>>
            /\ i_ptr >= 1 => InEmptyLoop'
       /\ InEmptyLoop =>
            /\ InEmptyLoop'
            /\ i_ptr' = Fetch.target
            /\ output' = output
            /\ inner' = inner]_vars

\* `+[]` is at its ']' with the cell at 1, about to jump back
C17_Witness ==
    /\ data = <<43, 91, 93>>
    /\ InEmptyLoop
    /\ i_ptr = 2
    /\ inner = <<1>>
    /\ output = <<>>

WritesCell(op) == op \in {"Inc", "Dec", "Input"}

MovesPtr(op) == op \in {"IncPtr", "DecPtr"}

LongerLen(v, w) == IF Len(v) > Len(w) THEN Len(v) ELSE Len(w)

\* C18: in every engine step only Inc, Dec and Input change a cell value,
\* and only the cell at the data pointer; IncPtr, DecPtr, Output, JmpStart
\* and JmpEnd leave every cell and the storage length as they are; only
\* IncPtr and DecPtr change the data pointer; only Output appends to the
\* output, exactly the one byte of the cell at the data pointer, and bytes
\* already written do not change.
C18_StepFrame ==
    [][pc = "run" =>
        /\ ~WritesCell(Fetch.op) => inner' = inner
        /\ WritesCell(Fetch.op) =>
                \A j \in 0..(LongerLen(inner, inner') - 1) :
                    j # d_ptr => CellOf(inner', j) = CellOf(inner, j)
        /\ ~MovesPtr(Fetch.op) => d_ptr' = d_ptr
        /\ Fetch.op # "Output" => output' = output
        /\ Fetch.op = "Output" =>
                output' = Append(output, CellOf(inner, d_ptr))]_vars

----------------------------------------------------------------------------
\* Properties of Program::load, continued.

\* C19: at every point of the scan, each index on the pending stack is
\* smaller than the number of instructions emitted and is the index of a
\* JmpStart, and the stack is strictly increasing from bottom to top; so the
\* back-patch always finds a JmpStart and the unreachable! branch of line
\* 148 is never reached.
C19_PendingStackSound ==
    /\ \A k \in 1..Len(jump_stack) :
        /\ jump_stack[k] >= 0
        /\ jump_stack[k] < Len(commands)
        /\ Nth(commands, jump_stack[k]).op = "JmpStart"
        /\ k > 1 => jump_stack[k - 1] < jump_stack[k]
    /\ jump_stack # <<>> =>
        is_jmp_start_at(commands, jump_stack[Len(jump_stack)])
    /\ result.tag # "Unreachable"

\* the scan of `[ []]` has closed the inner loop: the outer '[' is pending
C19_Witness ==
    /\ data = <<91, 32, 91, 93, 93>>
    /\ result = Pending
    /\ b_loc = 4
    /\ jump_stack = <<0>>
    /\ commands = <<JmpStart(0), JmpStart(2), JmpEnd(1)>>

----------------------------------------------------------------------------
\* The engine as coded against the engine of the transition table.

\* the table's rule for a bracket at index i: a taken jump goes to target+1
table_next(cmd, cell, i) == IF Taken(cmd, cell) THEN cmd.target + 1 ELSE i + 1

\* what a caller or the devices of the engine can observe of a run
Observed == <<inner, d_ptr, input, output>>

\* C20: the engine as coded and the engine of the transition table agree on
\* everything observable.  A bracket step of the coded engine changes
\* neither tape, data pointer, input nor output and never fails.  Where the
\* bracket does not jump, the coded step is the table's step, and it ends
\* the run exactly when the table's step does.  Where it jumps, the coded
\* engine lands on the partner bracket, whose table step from the unchanged
\* state leads where the table's jump leads and which does not jump, so
\* the coded engine is at the table's instruction one bracket step later.
\* At any other instruction both engines apply the same rule and move the
\* instruction pointer by one, unless the run fails.
C20_CodedEngineMatchesTable ==
    [][pc = "run" =>
        IF IsBracket(Fetch)
        THEN LET goal == table_next(Fetch, CellOf(inner, d_ptr), i_ptr)
             IN  /\ Observed' = Observed
                 /\ goal <= Len(commands)
                 /\ IF Taken(Fetch, CellOf(inner, d_ptr))
                    THEN /\ pc' = "run"
                         /\ IsBracket(Fetch')
                         /\ ~Taken(Fetch', CellOf(inner', d_ptr'))
                         /\ table_next(Fetch', CellOf(inner', d_ptr'), i_ptr')
                                = goal
                    ELSE /\ i_ptr' = goal
                         /\ pc' = IF goal = Len(commands)
                                  THEN "done" ELSE "run"
        ELSE \/ pc' = "panic"
             \/ /\ i_ptr' = i_ptr + 1
                /\ pc' = IF i_ptr' = Len(commands) THEN "done" ELSE "run"]_vars

\* `[.]` on a zero cell: the JmpStart has jumped over the Output and the
\* coded engine is at the JmpEnd, one step before the table's instruction
C20_Witness ==
    /\ data = <<91, 46, 93>>
    /\ pc = "run"
    /\ i_ptr = 2
    /\ output = <<>>
    /\ table_next(Fetch, CellOf(inner, d_ptr), i_ptr) = Len(commands)

====
